---- MODULE Spec2Model ----
(***************************************************************************)
(* Model of transformer.py: the attention layer, the encoder and decoder   *)
(* stacks, the mask builders and Transformer.forward.                      *)
(*                                                                         *)
(* Tensors of activations are kept as their shape <<N, L, E>> and a tag    *)
(* naming the value they hold; token batches and masks are kept entry by   *)
(* entry; attention energies are integers and attention weights are kept   *)
(* as the class of the float32 value (0 = the float 0.0, see Weight).      *)
(* Both masks are kept as 0/1 entries: `mask == 0` (line 37) reads the     *)
(* boolean source mask and the float target mask the same way.             *)
(***************************************************************************)
EXTENDS Integers, Sequences, FiniteSets, TLC

VARIABLES pc, cfg, src, trg, src_mask, trg_mask, enc, x, qry, layer,
          positions, call, out, u

vars == <<pc, cfg, src, trg, src_mask, trg_mask, enc, x, qry, layer,
          positions, call, out, u>>

(***************************************************************************)
(* Bounds of the model.                                                    *)
(***************************************************************************)
MaxBatch == 1
MaxLen == 2
MaxLayers == 2
UnitMaxBatch == 2
UnitMaxLen == 3
UnitMaxEmbed == 6
UnitMaxHeads == 4

Max(S) == CHOOSE m \in S : \A e \in S : e <= m

None == <<>>

NoTensor == [tag |-> <<"none", 0>>, shape |-> <<0, 0, 0>>]

NoCall == [site |-> "none"]

NoOut == [err |-> "pending", shape |-> <<>>]

Tensor(kind, i, n, l, e) == [tag |-> <<kind, i>>, shape |-> <<n, l, e>>]

Batches(maxN, maxL, toks) ==
    UNION { [1..n -> [1..l -> toks]] : n \in 1..maxN, l \in 1..maxL }

(***************************************************************************)
(* SelfAttention.__init__: head_dim and the divisibility assertion.        *)
(***************************************************************************)
SelfAttention_init_unchecked(embed_size, heads) ==
    [ok |-> TRUE, err |-> "none", head_dim |-> embed_size \div heads]

SelfAttention_init(embed_size, heads) ==
    LET head_dim == embed_size \div heads
    IN  IF head_dim * heads = embed_size
        THEN [ok |-> TRUE, err |-> "none", head_dim |-> head_dim]
        ELSE [ok |-> FALSE, err |-> "AssertionError", head_dim |-> head_dim]

(***************************************************************************)
(* Transformer.__init__: the encoder and the decoder build num_layers      *)
(* blocks each, and every block builds its attention layers.               *)
(***************************************************************************)
Transformer_init(c) ==
    IF c.num_layers = 0
    THEN [ok |-> TRUE, err |-> "none"]
    ELSE LET a == SelfAttention_init(c.embed_size, c.heads)
         IN  [ok |-> a.ok, err |-> a.err]

(***************************************************************************)
(* The mask builders.                                                      *)
(***************************************************************************)
make_src_mask_eq(s, src_pad_idx) ==
    [n \in 1..Len(s) |->
        << << [k \in 1..Len(s[n]) |-> IF s[n][k] = src_pad_idx THEN 1 ELSE 0] >> >>]

make_src_mask(s, src_pad_idx) ==
    [n \in 1..Len(s) |->
        << << [k \in 1..Len(s[n]) |-> IF s[n][k] # src_pad_idx THEN 1 ELSE 0] >> >>]

make_trg_mask_ones(t) ==
    LET N == Len(t)
        trg_len == Len(t[1])
    IN  [n \in 1..N |-> << [q \in 1..trg_len |-> [k \in 1..trg_len |-> 1]] >>]

make_trg_mask_strict(t) ==
    LET N == Len(t)
        trg_len == Len(t[1])
    IN  [n \in 1..N |->
            << [q \in 1..trg_len |->
                   [k \in 1..trg_len |-> IF k < q THEN 1 ELSE 0]] >>]

make_trg_mask(t) ==
    LET N == Len(t)
        trg_len == Len(t[1])
    IN  [n \in 1..N |->
            << [q \in 1..trg_len |->
                   [k \in 1..trg_len |-> IF k <= q THEN 1 ELSE 0]] >>]

(***************************************************************************)
(* Broadcasting of a mask of shape [a, b, c, d] against [N, H, Q, K].      *)
(***************************************************************************)
Bc(i, size) == IF size = 1 THEN 1 ELSE i

MaskShape(m) == <<Len(m), Len(m[1]), Len(m[1][1]), Len(m[1][1][1])>>

Broadcastable(m, N, H, Q, K) ==
    /\ MaskShape(m)[1] \in {1, N}
    /\ MaskShape(m)[2] \in {1, H}
    /\ MaskShape(m)[3] \in {1, Q}
    /\ MaskShape(m)[4] \in {1, K}

MaskAt(m, n, h, q, k) ==
    m[Bc(n, Len(m))][Bc(h, Len(m[1]))][Bc(q, Len(m[1][1]))][Bc(k, Len(m[1][1][1]))]

(***************************************************************************)
(* Line 37: the fill value float("-1e20"), kept as -10^9, the largest      *)
(* power of ten that fits a 32-bit integer; a weaker fill than the code's, *)
(* so a weight that underflows here underflows in the code as well.        *)
(***************************************************************************)
MaskFill == -(10^9)

masked_fill_skip(e, m) == e

masked_fill(e, m) == IF m = 0 THEN MaskFill ELSE e

(***************************************************************************)
(* Lines 27-31: the energy of (n, h, q, k) before masking.  The projection *)
(* weights are learned parameters; the scores they give are a fixed        *)
(* pattern over -2..2 that varies with every index and with the call.      *)
(***************************************************************************)
RawScore(salt, n, h, q, k) == ((salt + n + 2 * h + 3 * q + 4 * k) % 5) - 2

(***************************************************************************)
(* Line 39: softmax(energy / sqrt(embed_size)) in float32.  The weight of  *)
(* an entry is exp(-gap / sqrt(E)) / rowsum with gap = rowmax - energy;    *)
(* exp underflows to the float 0.0 once gap / sqrt(E) >= ExpUnderflow.     *)
(* A weight is kept as 0 for the float 0.0 and as a positive number that   *)
(* falls with the gap otherwise: equal weights of a row have equal values. *)
(***************************************************************************)
ExpUnderflow == 104

ExpUnderflows(gap, E) ==
    IF gap >= ExpUnderflow * E
    THEN TRUE
    ELSE gap * gap >= ExpUnderflow * ExpUnderflow * E

Weight(gap, E) == IF ExpUnderflows(gap, E) THEN 0 ELSE ExpUnderflow * E + 1 - gap

softmax(row, E) ==
    LET top == Max({row[k] : k \in DOMAIN row})
    IN  [k \in DOMAIN row |-> Weight(top - row[k], E)]

(***************************************************************************)
(* SelfAttention.forward on tensors given by their shapes.  A reshape      *)
(* fails when the element counts differ; masked_fill fails when the mask   *)
(* does not broadcast to the energy; einsum fails on a shared subscript    *)
(* whose sizes differ, unless one of the two sizes is 1 (it broadcasts).   *)
(* The layer issues no warning on any path.                                *)
(***************************************************************************)
Numel(t) == t.shape[1] * t.shape[2] * t.shape[3]

AttnFail(e) ==
    [err |-> e, shape |-> <<>>, energy |-> <<>>, attention |-> <<>>,
     warned |-> FALSE]

SelfAttention_forward(embed_size, heads, values, keys, queries, mask, salt) ==
    LET head_dim == embed_size \div heads
        N == queries.shape[1]
        value_len == values.shape[2]
        key_len == keys.shape[2]
        query_len == queries.shape[2]
        reshape_ok ==
            /\ Numel(values) = N * value_len * heads * head_dim
            /\ Numel(keys) = N * key_len * heads * head_dim
            /\ Numel(queries) = N * query_len * heads * head_dim
        mask_ok ==
            IF mask = None THEN TRUE
            ELSE Broadcastable(mask, N, heads, query_len, key_len)
        energy ==
            [n \in 1..N |-> [h \in 1..heads |-> [q \in 1..query_len |->
                [k \in 1..key_len |->
                    IF mask = None
                    THEN RawScore(salt, n, h, q, k)
                    ELSE masked_fill(RawScore(salt, n, h, q, k),
                                     MaskAt(mask, n, h, q, k))]]]]
        attention ==
            [n \in 1..N |-> [h \in 1..heads |-> [q \in 1..query_len |->
                softmax(energy[n][h][q], embed_size)]]]
        einsum_ok == IF value_len = key_len THEN TRUE
                     ELSE (IF value_len = 1 THEN TRUE ELSE key_len = 1)
    IN  IF ~reshape_ok THEN AttnFail("RuntimeError")
        ELSE IF ~mask_ok THEN AttnFail("RuntimeError")
        ELSE IF ~einsum_ok THEN AttnFail("RuntimeError")
        ELSE [err |-> "none",
              shape |-> <<N, query_len, embed_size>>,
              energy |-> energy, attention |-> attention, warned |-> FALSE]

(***************************************************************************)
(* TransformerBlock.forward: the attention, then attention + queries and   *)
(* the feed-forward sub-layer, which keep the shape of queries.            *)
(***************************************************************************)
TransformerBlock_forward(embed_size, heads, values, keys, queries, mask, salt) ==
    LET a == SelfAttention_forward(embed_size, heads, values, keys, queries,
                                   mask, salt)
    IN  IF a.err # "none" THEN a
        ELSE IF a.shape # queries.shape THEN AttnFail("RuntimeError")
        ELSE a

(***************************************************************************)
(* What each attention call receives.                                      *)
(***************************************************************************)
Encoder_layer_args(o, mask) ==
    [values |-> o, keys |-> o, queries |-> o, mask |-> mask,
     mask_arg |-> "mask"]

DecoderBLock_self_args(dx, values, keys, smask, tmask) ==
    [values |-> dx, keys |-> dx, queries |-> dx, mask |-> tmask,
     mask_arg |-> "trg_mask"]

DecoderBLock_cross_args_swapped(queries, values, keys, smask, tmask) ==
    [values |-> values, keys |-> keys, queries |-> queries, mask |-> tmask,
     mask_arg |-> "trg_mask"]

DecoderBLock_cross_args(queries, values, keys, smask, tmask) ==
    [values |-> values, keys |-> keys, queries |-> queries, mask |-> smask,
     mask_arg |-> "src_mask"]

(***************************************************************************)
(* Lines 99 and 147: torch.arange(0, seq_length).expand(N, seq_length).    *)
(***************************************************************************)
arange_expand(N, seq_length) ==
    [n \in 1..N |-> [i \in 1..seq_length |-> i - 1]]

(***************************************************************************)
(* nn.Embedding(size, E) lookup: every index must be inside the table.     *)
(***************************************************************************)
Embedding_ok_loose(idx, size) ==
    \A n \in DOMAIN idx : \A i \in DOMAIN idx[n] : idx[n][i] >= 0

Embedding_ok(idx, size) ==
    \A n \in DOMAIN idx : \A i \in DOMAIN idx[n] :
        idx[n][i] >= 0 /\ idx[n][i] < size

(***************************************************************************)
(* Line 153: fc_out maps the last axis of the decoder stream to the        *)
(* target vocabulary.                                                      *)
(***************************************************************************)
fc_out_shape_src(dx, enc_out, trg_vocab_size) ==
    <<dx.shape[1], enc_out.shape[2], trg_vocab_size>>

fc_out_shape(dx, enc_out, trg_vocab_size) ==
    <<dx.shape[1], dx.shape[2], trg_vocab_size>>

(***************************************************************************)
(* Configurations and inputs.  MainCfg, MainSrc and MainTrg are the run of *)
(* the __main__ block (trg[:, :-1] drops the last target column).          *)
(***************************************************************************)
NoCfg ==
    [src_vocab_size |-> 0, trg_vocab_size |-> 0, src_pad_idx |-> 0,
     trg_pad_idx |-> 0, embed_size |-> 0, num_layers |-> 0, heads |-> 0,
     max_length |-> 0]

MainCfg ==
    [src_vocab_size |-> 10, trg_vocab_size |-> 10, src_pad_idx |-> 0,
     trg_pad_idx |-> 0, embed_size |-> 256, num_layers |-> 6, heads |-> 8,
     max_length |-> 100]

MainSrc == << <<1, 5, 6, 4, 3, 9, 5, 2, 0>>, <<1, 8, 7, 3, 4, 5, 6, 7, 2>> >>

MainTrg == << <<1, 7, 4, 3, 5, 9, 2>>, <<1, 5, 6, 2, 4, 7, 6>> >>

SmallCfgs ==
    [src_vocab_size : {2}, trg_vocab_size : {3}, src_pad_idx : {0, 1},
     trg_pad_idx : {0}, embed_size : {2, 3}, num_layers : 0..MaxLayers,
     heads : {1, 2}, max_length : {MaxLen - 1, MaxLen}]

Cfgs == SmallCfgs \cup {MainCfg}

\* Target batches: the code reads the target tokens only in the embedding
\* lookup, so a batch is one token repeated; source batches are arbitrary.
\* The source and the target of one call share the batch size N.
TrgFills(N) ==
    { [n \in 1..N |-> [i \in 1..l |-> t]] : l \in 1..MaxLen, t \in {0, 1} }

Inputs ==
    { <<s, t>> : s \in Batches(MaxBatch, MaxLen, {0, 1}),
                 t \in UNION { TrgFills(N) : N \in 1..MaxBatch } }

SameBatch(s, t) == Len(s) = Len(t)

Init ==
    /\ pc = "new"
    /\ cfg = NoCfg
    /\ src = <<>>
    /\ trg = <<>>
    /\ src_mask = None
    /\ trg_mask = None
    /\ enc = NoTensor
    /\ x = NoTensor
    /\ qry = NoTensor
    /\ layer = 0
    /\ positions = <<>>
    /\ call = NoCall
    /\ out = NoOut
    /\ u = [op |-> "idle"]

Fail(e, at) == [err |-> e, shape |-> <<>>, at |-> at]

CallRecord(site, args, r) ==
    [site |-> site, layer |-> layer + 1,
     values |-> args.values.tag, keys |-> args.keys.tag,
     queries |-> args.queries.tag, mask |-> args.mask,
     mask_arg |-> args.mask_arg,
     energy |-> r.energy, attention |-> r.attention, warned |-> r.warned]

(***************************************************************************)
(* Transformer(...): construction either succeeds or raises.               *)
(***************************************************************************)
Construct ==
    /\ pc = "new"
    /\ \E c \in Cfgs :
          /\ cfg' = c
          /\ IF Transformer_init(c).ok
             THEN pc' = "ready" /\ out' = out
             ELSE pc' = "config_error"
                  /\ out' = Fail(Transformer_init(c).err, "init")
    /\ UNCHANGED <<src, trg, src_mask, trg_mask, enc, x, qry, layer,
                   positions, call, u>>

(***************************************************************************)
(* Transformer.forward, lines 206-207: both masks are built.               *)
(***************************************************************************)
Forward_masks ==
    /\ pc = "ready"
    /\ \E io \in Inputs \cup {<<MainSrc, MainTrg>>} :
          /\ SameBatch(io[1], io[2])
          /\ src' = io[1]
          /\ trg' = io[2]
          /\ src_mask' = make_src_mask(io[1], cfg.src_pad_idx)
          /\ trg_mask' = make_trg_mask(io[2])
    /\ pc' = "encoder"
    /\ UNCHANGED <<cfg, enc, x, qry, layer, positions, call, out, u>>

(***************************************************************************)
(* Encoder.forward, lines 98-101: positions and the two embeddings.        *)
(***************************************************************************)
Encoder_embed ==
    /\ pc = "encoder"
    /\ LET N == Len(src)
           seq_length == Len(src[1])
           p == arange_expand(N, seq_length)
       IN  /\ positions' = p
           /\ IF Embedding_ok(src, cfg.src_vocab_size)
                 /\ Embedding_ok(p, cfg.max_length)
              THEN /\ enc' = Tensor("enc", 0, N, seq_length, cfg.embed_size)
                   /\ pc' = "enc_layers"
                   /\ out' = out
              ELSE /\ enc' = enc
                   /\ pc' = "error"
                   /\ out' = Fail("IndexError", "encoder")
    /\ layer' = 0
    /\ UNCHANGED <<cfg, src, trg, src_mask, trg_mask, x, qry, call, u>>

(***************************************************************************)
(* Encoder.forward, lines 103-104: one layer of the stack.                 *)
(***************************************************************************)
Encoder_layer ==
    /\ pc = "enc_layers"
    /\ layer < cfg.num_layers
    /\ LET a == Encoder_layer_args(enc, src_mask)
           r == TransformerBlock_forward(cfg.embed_size, cfg.heads, a.values,
                                         a.keys, a.queries, a.mask, layer)
       IN  /\ call' = CallRecord("encoder", a, r)
           /\ IF r.err = "none"
              THEN /\ enc' = [tag |-> <<"enc", layer + 1>>, shape |-> r.shape]
                   /\ layer' = layer + 1
                   /\ pc' = pc
                   /\ out' = out
              ELSE /\ enc' = enc
                   /\ layer' = layer
                   /\ pc' = "error"
                   /\ out' = Fail(r.err, "encoder")
    /\ UNCHANGED <<cfg, src, trg, src_mask, trg_mask, x, qry, positions, u>>

(***************************************************************************)
(* Decoder.forward, lines 146-148, entered with the encoder's output.      *)
(***************************************************************************)
Decoder_embed ==
    /\ pc = "enc_layers"
    /\ layer = cfg.num_layers
    /\ LET N == Len(trg)
           seq_length == Len(trg[1])
           p == arange_expand(N, seq_length)
       IN  /\ positions' = p
           /\ IF Embedding_ok(trg, cfg.trg_vocab_size)
                 /\ Embedding_ok(p, cfg.max_length)
              THEN /\ x' = Tensor("dec", 0, N, seq_length, cfg.embed_size)
                   /\ pc' = "dec_self"
                   /\ out' = out
              ELSE /\ x' = x
                   /\ pc' = "error"
                   /\ out' = Fail("IndexError", "decoder")
    /\ layer' = 0
    /\ UNCHANGED <<cfg, src, trg, src_mask, trg_mask, enc, qry, call, u>>

(***************************************************************************)
(* DecoderBLock.forward, lines 116-117: masked self-attention and norm.    *)
(***************************************************************************)
DecoderBLock_self ==
    /\ pc = "dec_self"
    /\ layer < cfg.num_layers
    /\ LET a == DecoderBLock_self_args(x, enc, enc, src_mask, trg_mask)
           r == SelfAttention_forward(cfg.embed_size, cfg.heads, a.values,
                                      a.keys, a.queries, a.mask, 10 + layer)
       IN  /\ call' = CallRecord("decoder_self", a, r)
           /\ IF r.err = "none" /\ r.shape = x.shape
              THEN /\ qry' = [tag |-> <<"dec_q", layer + 1>>, shape |-> r.shape]
                   /\ pc' = "dec_cross"
                   /\ out' = out
              ELSE /\ qry' = qry
                   /\ pc' = "error"
                   /\ out' = Fail("RuntimeError", "decoder")
    /\ UNCHANGED <<cfg, src, trg, src_mask, trg_mask, enc, x, layer,
                   positions, u>>

(***************************************************************************)
(* DecoderBLock.forward, line 118: cross-attention over the encoder output.*)
(***************************************************************************)
DecoderBLock_cross ==
    /\ pc = "dec_cross"
    /\ LET a == DecoderBLock_cross_args(qry, enc, enc, src_mask, trg_mask)
           r == TransformerBlock_forward(cfg.embed_size, cfg.heads, a.values,
                                         a.keys, a.queries, a.mask, 20 + layer)
       IN  /\ call' = CallRecord("decoder_cross", a, r)
           /\ IF r.err = "none"
              THEN /\ x' = [tag |-> <<"dec", layer + 1>>, shape |-> r.shape]
                   /\ layer' = layer + 1
                   /\ pc' = "dec_self"
                   /\ out' = out
              ELSE /\ x' = x
                   /\ layer' = layer
                   /\ pc' = "error"
                   /\ out' = Fail(r.err, "decoder")
    /\ UNCHANGED <<cfg, src, trg, src_mask, trg_mask, enc, qry, positions, u>>

(***************************************************************************)
(* Decoder.forward, lines 153-154, and the return of Transformer.forward.  *)
(***************************************************************************)
Decoder_out ==
    /\ pc = "dec_self"
    /\ layer = cfg.num_layers
    /\ out' = [err |-> "none",
               shape |-> fc_out_shape(x, enc, cfg.trg_vocab_size),
               at |-> "decoder"]
    /\ pc' = "done"
    /\ UNCHANGED <<cfg, src, trg, src_mask, trg_mask, enc, x, qry, layer,
                   positions, call, u>>

(***************************************************************************)
(* The call is over: its tensors and masks are dropped, the model stays.   *)
(***************************************************************************)
Return ==
    /\ pc \in {"done", "error"}
    /\ pc' = "ready"
    /\ src' = <<>>
    /\ trg' = <<>>
    /\ src_mask' = None
    /\ trg_mask' = None
    /\ enc' = NoTensor
    /\ x' = NoTensor
    /\ qry' = NoTensor
    /\ layer' = 0
    /\ positions' = <<>>
    /\ call' = NoCall
    /\ out' = NoOut
    /\ UNCHANGED <<cfg, u>>

Next ==
    \/ Construct
    \/ Forward_masks
    \/ Encoder_embed
    \/ Encoder_layer
    \/ Decoder_embed
    \/ DecoderBLock_self
    \/ DecoderBLock_cross
    \/ Decoder_out
    \/ Return

Spec == Init /\ [][Next]_vars

(***************************************************************************)
(* The public pieces on their own: the attention layer is constructed and  *)
(* called with tensors of any shapes, the mask builders with any batch.    *)
(***************************************************************************)
UnitShapes(E) ==
    { <<n, l, E>> : n \in 1..UnitMaxBatch, l \in 1..UnitMaxLen }

OnesMask(N, K) == [n \in 1..N |-> << << [k \in 1..K |-> 1] >> >>]

Unit_init ==
    /\ u.op = "idle"
    /\ \E E \in 1..UnitMaxEmbed, H \in 1..UnitMaxHeads :
          u' = [op |-> "init", embed_size |-> E, heads |-> H,
                res |-> SelfAttention_init(E, H)]
    /\ UNCHANGED <<pc, cfg, src, trg, src_mask, trg_mask, enc, x, qry, layer,
                   positions, call, out>>

Unit_forward ==
    /\ u.op = "init"
    /\ u.res.ok
    /\ \E v \in UnitShapes(u.embed_size), k \in UnitShapes(u.embed_size),
          q \in UnitShapes(u.embed_size), masked \in BOOLEAN :
          LET mask == IF masked THEN OnesMask(q[1], k[2]) ELSE None
          IN  u' = [op |-> "forward", embed_size |-> u.embed_size,
                    heads |-> u.heads, values |-> v, keys |-> k,
                    queries |-> q, mask |-> mask,
                    res |-> SelfAttention_forward(u.embed_size, u.heads,
                               [tag |-> <<"values", 0>>, shape |-> v],
                               [tag |-> <<"keys", 0>>, shape |-> k],
                               [tag |-> <<"queries", 0>>, shape |-> q],
                               mask, 0)]
    /\ UNCHANGED <<pc, cfg, src, trg, src_mask, trg_mask, enc, x, qry, layer,
                   positions, call, out>>

Unit_make_src_mask ==
    /\ u.op = "idle"
    /\ \E s \in Batches(UnitMaxBatch, UnitMaxLen, {0, 1}), pad \in {0, 1} :
          u' = [op |-> "make_src_mask", tokens |-> s, src_pad_idx |-> pad,
                res |-> make_src_mask(s, pad)]
    /\ UNCHANGED <<pc, cfg, src, trg, src_mask, trg_mask, enc, x, qry, layer,
                   positions, call, out>>

Unit_make_trg_mask ==
    /\ u.op = "idle"
    /\ \E t \in Batches(UnitMaxBatch, UnitMaxLen, {0, 1}) :
          u' = [op |-> "make_trg_mask", tokens |-> t,
                res |-> make_trg_mask(t)]
    /\ UNCHANGED <<pc, cfg, src, trg, src_mask, trg_mask, enc, x, qry, layer,
                   positions, call, out>>

UnitNext ==
    \/ Unit_init
    \/ Unit_forward
    \/ Unit_make_src_mask
    \/ Unit_make_trg_mask

UnitSpec == Init /\ [][UnitNext]_vars

(***************************************************************************)
(* Properties.                                                             *)
(***************************************************************************)
CallDone(site) == call.site = site /\ call.attention # <<>>

Heads(c) == 1..Len(c.attention[1])

Queries(c) == 1..Len(c.attention[1][1])

Keys(c) == 1..Len(c.attention[1][1][1])

\* C1: in every decoder block's self-attention, for every batch element,
\* head and query position q, each key position k > q has its score replaced
\* by the fill value and its weight is exactly 0, and no score at k <= q is
\* replaced.
C1_CausalWeightsZero ==
    CallDone("decoder_self") =>
        \A n \in DOMAIN call.attention : \A h \in Heads(call) :
            \A q \in Queries(call) : \A k \in Keys(call) :
                /\ k > q => /\ call.energy[n][h][q][k] = MaskFill
                            /\ call.attention[n][h][q][k] = 0
                /\ k <= q => call.energy[n][h][q][k] # MaskFill

C1_Witness ==
    /\ CallDone("decoder_self")
    /\ call.layer = 2
    /\ Len(trg[1]) >= 2
    /\ call.attention[1][1][1][2] = 0
    /\ call.attention[1][1][2][1] > 0

\* C2: in every decoder block's cross-attention, the column of every source
\* position that holds the source padding index has weight 0 for every query
\* and head, provided the batch element has a source position that is not
\* padding.
C2_PaddingColumnsZero ==
    CallDone("decoder_cross") =>
        \A n \in DOMAIN src : \A k \in DOMAIN src[n] :
            (/\ src[n][k] = cfg.src_pad_idx
             /\ \E j \in DOMAIN src[n] : src[n][j] # cfg.src_pad_idx)
            => \A h \in Heads(call) : \A q \in Queries(call) :
                   call.attention[n][h][q][k] = 0

C2_Witness ==
    /\ CallDone("decoder_cross")
    /\ \E k, j \in DOMAIN src[1] :
          /\ src[1][k] = cfg.src_pad_idx
          /\ src[1][j] # cfg.src_pad_idx
          /\ call.attention[1][1][1][k] = 0
          /\ call.attention[1][1][1][j] > 0

\* C3: constructing the attention layer succeeds exactly when embed_size is
\* a multiple of heads and fails with the assertion error otherwise; a
\* forward call is only ever made on a layer whose embed_size is a multiple
\* of heads.
C3_ConstructionChecksDivisibility ==
    /\ u.op = "init" =>
          /\ u.res.ok <=> (u.embed_size % u.heads = 0)
          /\ ~u.res.ok => u.res.err = "AssertionError"
    /\ u.op = "forward" => u.embed_size % u.heads = 0

C3_Witness ==
    /\ u.op = "init"
    /\ u.embed_size % u.heads # 0
    /\ ~u.res.ok

\* C4: make_trg_mask of a batch [N, trg_len] has shape [N, 1, trg_len,
\* trg_len] and its entry (n, 0, q, k) is 1 exactly when k <= q, whatever the
\* tokens are.
C4_TrgMaskLowerTriangular ==
    u.op = "make_trg_mask" =>
        LET N == Len(u.tokens)
            trg_len == Len(u.tokens[1])
        IN  /\ Len(u.res) = N
            /\ \A n \in 1..N :
                  /\ Len(u.res[n]) = 1
                  /\ Len(u.res[n][1]) = trg_len
                  /\ \A q \in 1..trg_len :
                        /\ Len(u.res[n][1][q]) = trg_len
                        /\ \A k \in 1..trg_len :
                              (u.res[n][1][q][k] = 1) <=> (k <= q)

C4_Witness ==
    /\ u.op = "make_trg_mask"
    /\ Len(u.tokens) = 2
    /\ Len(u.tokens[1]) = 3
    /\ u.tokens[1][2] = 0
    /\ u.tokens[2][3] = 1
    /\ u.res[2][1][2][2] = 1
    /\ u.res[2][1][2][3] = 0

\* C5: make_src_mask of a batch [N, src_len] has shape [N, 1, 1, src_len]
\* and its entry (n, 0, 0, k) is true exactly when src[n][k] differs from
\* the source padding index.
C5_SrcMaskMarksNonPadding ==
    u.op = "make_src_mask" =>
        LET N == Len(u.tokens)
            src_len == Len(u.tokens[1])
        IN  /\ Len(u.res) = N
            /\ \A n \in 1..N :
                  /\ Len(u.res[n]) = 1
                  /\ Len(u.res[n][1]) = 1
                  /\ Len(u.res[n][1][1]) = src_len
                  /\ \A k \in 1..src_len :
                        (u.res[n][1][1][k] = 1)
                            <=> (u.tokens[n][k] # u.src_pad_idx)

C5_Witness ==
    /\ u.op = "make_src_mask"
    /\ u.src_pad_idx = 1
    /\ Len(u.tokens) = 2
    /\ Len(u.tokens[1]) = 3
    /\ u.tokens[2][3] = 1
    /\ u.res[2][1][1][3] = 0
    /\ u.tokens[1][3] = 0
    /\ u.res[1][1][1][3] = 1

\* C6: every encoder layer's attention receives the source mask with value =
\* key = query = the encoder stream; every decoder block's self-attention
\* receives the target mask with value = key = query = the decoder stream;
\* its cross-attention receives the source mask with value = key = the final
\* encoder output and query = the normalized self-attention output.
C6_MaskRouting ==
    /\ call.site = "encoder" =>
          /\ call.mask = src_mask
          /\ call.mask_arg = "mask"
          /\ call.values = <<"enc", call.layer - 1>>
          /\ call.keys = call.values
          /\ call.queries = call.values
    /\ call.site = "decoder_self" =>
          /\ call.mask = trg_mask
          /\ call.mask_arg = "trg_mask"
          /\ call.values = <<"dec", call.layer - 1>>
          /\ call.keys = call.values
          /\ call.queries = call.values
    /\ call.site = "decoder_cross" =>
          /\ call.mask = src_mask
          /\ call.mask_arg = "src_mask"
          /\ call.values = <<"enc", cfg.num_layers>>
          /\ call.keys = call.values
          /\ call.queries = <<"dec_q", call.layer>>

C6_Witness ==
    /\ CallDone("decoder_cross")
    /\ call.layer = 2
    /\ Len(src[1]) # Len(trg[1])
    /\ src_mask # trg_mask

FullyMaskedRow(c) ==
    \E n \in DOMAIN c.energy : \E h \in DOMAIN c.energy[n] :
        \E q \in DOMAIN c.energy[n][h] :
            \A k \in DOMAIN c.energy[n][h][q] : c.energy[n][h][q][k] = MaskFill

\* C7: an attention call in which a query position has every key masked
\* raises a warning or assertion.
C7_DegenerateMaskSurfaced ==
    (call.site # "none" /\ FullyMaskedRow(call)) => call.warned

Positions0ToL(tokens) ==
    /\ Len(positions) = Len(tokens)
    /\ \A n \in DOMAIN positions :
          /\ Len(positions[n]) = Len(tokens[n])
          /\ \A i \in DOMAIN positions[n] : positions[n][i] = i - 1

PositionsChecked(tokens, at) ==
    /\ Positions0ToL(tokens)
    /\ Len(tokens[1]) > cfg.max_length =>
          /\ pc = "error"
          /\ out.err = "IndexError"
          /\ out.at = at
          /\ out.shape = <<>>
    /\ Len(tokens[1]) <= cfg.max_length =>
          \A n \in DOMAIN positions : \A i \in DOMAIN positions[n] :
              positions[n][i] >= 0 /\ positions[n][i] < cfg.max_length

\* C8: in the encoder and in the decoder the position indices of a call are
\* 0..L-1 in every batch row; when L exceeds max_length the call fails with
\* the index error and has no output, and otherwise every index is inside
\* the positional table.
C8_PositionsInRange ==
    /\ (pc = "enc_layers" \/ (pc = "error" /\ out.at = "encoder"))
          => PositionsChecked(src, "encoder")
    /\ (pc \in {"dec_self", "dec_cross", "done"}
          \/ (pc = "error" /\ out.at = "decoder"))
          => PositionsChecked(trg, "decoder")

C8_Witness ==
    /\ pc = "error"
    /\ out.at = "decoder"
    /\ out.err = "IndexError"
    /\ Len(trg[1]) > cfg.max_length
    /\ Len(src[1]) <= cfg.max_length
    /\ positions[1][Len(trg[1])] = cfg.max_length

InVocab(tokens, size) ==
    \A n \in DOMAIN tokens : \A i \in DOMAIN tokens[n] : tokens[n][i] < size

\* C9: a forward call on a source [N, src_len] and a target [N, trg_len]
\* with both lengths within max_length and all tokens in the vocabularies
\* never fails, and the logits it returns have shape [N, trg_len,
\* trg_vocab_size]; the run of the main block returns [2, 7, 10].
C9_LogitsShape ==
    /\ pc = "done" =>
          /\ out.err = "none"
          /\ out.shape = <<Len(trg), Len(trg[1]), cfg.trg_vocab_size>>
    /\ (pc = "done" /\ cfg = MainCfg /\ src = MainSrc /\ trg = MainTrg)
          => out.shape = <<2, 7, 10>>
    /\ pc = "error" =>
          \/ Len(src[1]) > cfg.max_length
          \/ Len(trg[1]) > cfg.max_length
          \/ ~InVocab(src, cfg.src_vocab_size)
          \/ ~InVocab(trg, cfg.trg_vocab_size)

C9_Witness ==
    /\ pc = "done"
    /\ cfg = MainCfg
    /\ src = MainSrc
    /\ trg = MainTrg
    /\ out.shape = <<2, 7, 10>>

\* C10: the attention forward fails whenever the batch sizes of value, key
\* and query differ or value_len differs from key_len, and succeeds
\* otherwise, also when the query length differs from the key length.
C10_ShapeMismatchFails ==
    u.op = "forward" =>
        LET mismatch ==
                \/ u.values[1] # u.queries[1]
                \/ u.keys[1] # u.queries[1]
                \/ u.values[2] # u.keys[2]
        IN  /\ mismatch => u.res.err = "RuntimeError"
            /\ ~mismatch => u.res.err = "none"

====
